---- MODULE Spec2Model ----
(***************************************************************************)
(* Model of the policy-battle workflow of app.py: sources are registered,  *)
(* analysed (parse_image_with_gemini_v2), reviewed (row / column filters)  *)
(* and merged into a workbook by create_battle_excel; the offset cells of  *)
(* the built workbook can then be edited.                                  *)
(*                                                                         *)
(* Strings are sequences of one-character strings, so that substring       *)
(* tests, strip(), lower(), split() and the sort order are computed as     *)
(* Python computes them; a Hangul syllable is one character, written here  *)
(* by its romanisation ("gong" is U+ACF5).  None is the empty sequence and *)
(* a present value x is <<x>>; a DataFrame cell is <<>> (NaN) or <<n>>.    *)
(***************************************************************************)
EXTENDS Integers, Sequences, FiniteSets, TLC

VARIABLES
    policies,     \* st.session_state.policies: sequence of PolicyData
    excel_ready,  \* st.session_state['excel_ready']: None or the workbook
    uploads       \* the submissions (name, colour, image) the user has at hand

vars == <<policies, excel_ready, uploads>>

None == <<>>
Some(x) == <<x>>
NaN == <<>>
Num(n) == <<n>>

(***************************************************************************)
(* Bounds of the model.                                                    *)
(***************************************************************************)
MaxPolicies == 2      \* sources registered at one time

(***************************************************************************)
(* String helpers (Python str semantics on sequences of characters).       *)
(***************************************************************************)
RECURSIVE Concat(_)
Concat(parts) ==
    IF parts = <<>> THEN <<>> ELSE Head(parts) \o Concat(Tail(parts))

\* `sub in s`
Contains(s, sub) ==
    \E i \in 1..(Len(s) - Len(sub) + 1) : SubSeq(s, i, i + Len(sub) - 1) = sub

\* ord() of the characters that occur in model identifiers and source names
Ord(c) ==
    CASE c = " " -> 32
      [] c = "A" -> 65
      [] c = "B" -> 66
      [] c = "N" -> 78
      [] c = "P" -> 80
      [] c = "Q" -> 81
      [] c = "U" -> 85
      [] c = "a" -> 97
      [] c = "b" -> 98
      [] c = "k" -> 107
      [] c = "n" -> 110
      [] c = "o" -> 111
      [] c = "w" -> 119
      [] OTHER -> 0

\* str.lower() on one character
LowerChar(c) ==
    CASE c = "A" -> "a"
      [] c = "B" -> "b"
      [] c = "N" -> "n"
      [] c = "U" -> "u"
      [] OTHER -> c

Lower(s) == [i \in 1..Len(s) |-> LowerChar(s[i])]

IsSpace(c) == c = " "

\* str.strip()
Strip(s) ==
    LET keep == {i \in 1..Len(s) : ~IsSpace(s[i])}
    IN  IF keep = {} THEN <<>>
        ELSE LET lo == CHOOSE i \in keep : \A j \in keep : i <= j
                 hi == CHOOSE i \in keep : \A j \in keep : j <= i
             IN  SubSeq(s, lo, hi)

\* a < b for Python strings (code point order, a proper prefix is smaller)
StrLess(a, b) ==
    \E k \in 1..(Len(b)) :
        /\ k <= Len(a) + 1
        /\ \A j \in 1..(k - 1) : a[j] = b[j]
        /\ \/ k = Len(a) + 1
           \/ (k <= Len(a) /\ Ord(a[k]) < Ord(b[k]))

\* sorted(S, key=str) for a set of distinct strings
RECURSIVE SortedStr(_)
SortedStr(S) ==
    IF S = {} THEN <<>>
    ELSE LET m == CHOOSE x \in S : \A y \in S \ {x} : StrLess(x, y)
         IN  <<m>> \o SortedStr(S \ {m})

\* s.replace(ch, "")
RECURSIVE RemoveChar(_, _)
RemoveChar(s, ch) ==
    IF s = <<>> THEN <<>>
    ELSE (IF Head(s) = ch THEN <<>> ELSE <<Head(s)>>) \o RemoveChar(Tail(s), ch)

\* s.split(ch)[-1]: what follows the last occurrence of ch (all of s if none)
SplitLast(s, ch) ==
    LET at == {i \in 1..Len(s) : s[i] = ch}
    IN  IF at = {} THEN s
        ELSE LET last == CHOOSE i \in at : \A j \in at : j <= i
             IN  SubSeq(s, last + 1, Len(s))

SeqToSet(s) == {s[i] : i \in 1..Len(s)}

(***************************************************************************)
(* parse_image_with_gemini_v2: the structured answer of the OCR            *)
(* collaborator is turned into a DataFrame.  An answer is a record         *)
(*   [columns |-> sequence of column descriptors (records whose fields     *)
(*                sub_agency / condition / plan may be missing),           *)
(*    rows    |-> sequence of rows <<model, price, price, ...>>, the model *)
(*                None or Some(string), a price NaN (null) or Num(n),      *)
(*    footer  |-> string].                                                 *)
(* A DataFrame is [index, columns, data], data[r][c] being NaN or Num(n).  *)
(***************************************************************************)
DefaultSub == <<"gong", "tong">>        \* U+ACF5 U+D1B5
DefaultCond == <<"jo", "geon">>         \* U+C870 U+AC74
DefaultPlan == <<"pyo", "jun">>         \* U+D45C U+C900
TUniverse == <<"T", "wu", "ju">>        \* T U+C6B0 U+C8FC
\* 5GX U+D504 U+B9AC U+BBF8 U+C5C4 (T U+C6B0 U+C8FC)
TUniversePlan ==
    <<"5", "G", "X", " ", "peu", "ri", "mi", "eom", "(", "T", "wu", "ju", ")">>
UnknownModel == <<"U", "n", "k", "n", "o", "w", "n">>

\* one element of column_names (the body of the loop over raw_columns)
ColumnName(col) ==
    LET sub == IF "sub_agency" \in DOMAIN col THEN col.sub_agency ELSE DefaultSub
        cond == IF "condition" \in DOMAIN col THEN col.condition ELSE DefaultCond
        plan0 == IF "plan" \in DOMAIN col THEN col.plan ELSE DefaultPlan
        plan == IF Contains(plan0, TUniverse) THEN TUniversePlan ELSE plan0
    IN  Concat(<<sub, <<"|">>, cond, <<"(">>, plan, <<")">>>>)

ColumnNames(raw_columns) ==
    [i \in 1..Len(raw_columns) |-> ColumnName(raw_columns[i])]

\* REFERENCE_DATA when data/reference_db.json is absent
REFERENCE_DATA == [models |-> {}, plans |-> <<>>]

map_model_code_to_name(code) ==
    IF \E m \in REFERENCE_DATA.models : code \in m.codes
    THEN (CHOOSE m \in REFERENCE_DATA.models : code \in m.codes).name
    ELSE code

\* the slots of row r that are written into row_dict (in order)
RowSlots(r, column_names) ==
    {i \in 1..(Len(r) - 1) : i <= Len(column_names) /\ r[i + 1] # NaN}

\* the keys of row_dict after "Model", in insertion order
RECURSIVE RowKeysFrom(_, _, _, _)
RowKeysFrom(r, column_names, i, seen) ==
    IF i > Len(r) - 1 THEN <<>>
    ELSE IF i \in RowSlots(r, column_names) /\ column_names[i] \notin seen
         THEN <<column_names[i]>>
              \o RowKeysFrom(r, column_names, i + 1, seen \cup {column_names[i]})
         ELSE RowKeysFrom(r, column_names, i + 1, seen)

\* row_dict[name]: the last value written under that name, NaN if none
RowValue(r, column_names, name) ==
    LET at == {i \in RowSlots(r, column_names) : column_names[i] = name}
    IN  IF at = {} THEN NaN
        ELSE r[(CHOOSE i \in at : \A j \in at : j <= i) + 1]

\* the columns of pd.DataFrame(data_dicts): keys in order of first appearance
RECURSIVE FrameColumns(_, _, _)
FrameColumns(rows, column_names, seen) ==
    IF rows = <<>> THEN <<>>
    ELSE LET new == RowKeysFrom(Head(rows), column_names, 1, seen)
         IN  new \o FrameColumns(Tail(rows), column_names, seen \cup SeqToSet(new))

RowModelName(r) == IF r[1] # None THEN r[1][1] ELSE UnknownModel

EmptyFrame ==
    [index |-> <<>>,
     columns |-> << <<"M", "o", "d", "e", "l">>, <<"P", "r", "i", "c", "e">> >>,
     data |-> <<>>]

\* df of parse_image_with_gemini_v2 for the answer `data`
ParseFrame(data) ==
    LET column_names == ColumnNames(data.columns)
        rows == SelectSeq(data.rows, LAMBDA r : r # <<>>)
        cols == FrameColumns(rows, column_names, {})
    IN  IF rows = <<>> THEN EmptyFrame
        ELSE [index |-> [k \in 1..Len(rows) |->
                            map_model_code_to_name(RowModelName(rows[k]))],
              columns |-> cols,
              data |-> [k \in 1..Len(rows) |->
                          [c \in 1..Len(cols) |->
                              RowValue(rows[k], column_names, cols[c])]]]

\* df.empty
FrameEmpty(df) == Len(df.index) = 0 \/ Len(df.columns) = 0

(***************************************************************************)
(* create_battle_excel(policies): the merged sheet.                        *)
(***************************************************************************)
Gongsi == <<"gong", "si">>          \* U+ACF5 U+C2DC, public subsidy
Seonyak == <<"seon", "yak">>        \* U+C120 U+C57D, select commitment
Mnp == <<"M", "N", "P">>            \* port-in
Gibyeon == <<"gi", "byeon">>        \* U+AE30 U+BCC0, device change

NoCategory == "None"
\* target_categories, in the order of the header row
TargetCategories ==
    <<"gongsi(MNP)", "seonyak(MNP)", "gongsi(gibyeon)", "seonyak(gibyeon)">>

Sentinels == {<<"u", "n", "k", "n", "o", "w", "n">>, <<"n", "o", "n", "e">>,
              <<"n", "a", "n">>}

\* the cell of row 2 that holds the offset of the k-th source, "$<letter>$2"
AdjCell(k) == [col |-> k + 1, row |-> 2]

\* agency_adj_map after the loop over policies: a later source of the same
\* name overwrites the entry of an earlier one
AgencyAdjMap(ps) ==
    [n \in {ps[i].name : i \in 1..Len(ps)} |->
        AdjCell(CHOOSE i \in 1..Len(ps) :
                    /\ ps[i].name = n
                    /\ \A j \in 1..Len(ps) : ps[j].name = n => j <= i)]

\* models_to_scan of one source
ModelsToScan(p) ==
    IF p.selected_models # <<>> THEN p.selected_models ELSE p.df[1].index

\* what one source adds to all_models
CollectedModels(p) ==
    IF p.df # None /\ ~FrameEmpty(p.df[1])
    THEN {Strip(ModelsToScan(p)[i]) : i \in
            {k \in 1..Len(ModelsToScan(p)) :
                /\ Strip(ModelsToScan(p)[k]) # <<>>
                /\ Lower(Strip(ModelsToScan(p)[k])) \notin Sentinels}}
    ELSE {}

AllModels(ps) == UNION {CollectedModels(ps[i]) : i \in 1..Len(ps)}

\* combined_index
CombinedIndex(ps) == SortedStr({m \in AllModels(ps) : m # <<>>})

\* plan_name of a column key
PlanName(col_str) ==
    IF Contains(col_str, <<"(">>) /\ Contains(col_str, <<")">>)
    THEN RemoveChar(SplitLast(col_str, "("), ")")
    ELSE <<>>

\* ParseCategory with a column that names no acquisition type counted as
\* port-in
ParseCategoryDefaultMnp(col_str) ==
    IF Contains(col_str, Gongsi)
    THEN (IF Contains(col_str, Gibyeon) /\ ~Contains(col_str, Mnp)
          THEN "gongsi(gibyeon)" ELSE "gongsi(MNP)")
    ELSE IF Contains(col_str, Seonyak)
    THEN (IF Contains(col_str, Gibyeon) /\ ~Contains(col_str, Mnp)
          THEN "seonyak(gibyeon)" ELSE "seonyak(MNP)")
    ELSE NoCategory

\* ParseCategory with the two acquisition keywords tested in the other order
ParseCategoryGibyeonFirst(col_str) ==
    IF Contains(col_str, Gongsi)
    THEN (IF Contains(col_str, Gibyeon) THEN "gongsi(gibyeon)"
          ELSE IF Contains(col_str, Mnp) THEN "gongsi(MNP)"
          ELSE NoCategory)
    ELSE IF Contains(col_str, Seonyak)
    THEN (IF Contains(col_str, Gibyeon) THEN "seonyak(gibyeon)"
          ELSE IF Contains(col_str, Mnp) THEN "seonyak(MNP)"
          ELSE NoCategory)
    ELSE NoCategory

\* category of a column key
ParseCategory(col_str) ==
    IF Contains(col_str, Gongsi)
    THEN (IF Contains(col_str, Mnp) THEN "gongsi(MNP)"
          ELSE IF Contains(col_str, Gibyeon) THEN "gongsi(gibyeon)"
          ELSE NoCategory)
    ELSE IF Contains(col_str, Seonyak)
    THEN (IF Contains(col_str, Mnp) THEN "seonyak(MNP)"
          ELSE IF Contains(col_str, Gibyeon) THEN "seonyak(gibyeon)"
          ELSE NoCategory)
    ELSE NoCategory

\* ReadPrice with a missing value read as 0
ReadPriceMissingAsZero(df, model, col) ==
    LET rows == {k \in 1..Len(df.index) : df.index[k] = model}
        c == CHOOSE j \in 1..Len(df.columns) : df.columns[j] = col
    IN  IF Cardinality(rows) = 1 /\ df.data[CHOOSE k \in rows : TRUE][c] # NaN
        THEN df.data[CHOOSE k \in rows : TRUE][c]
        ELSE Num(0)

\* float(p.df.loc[model, col]): NaN when the value is missing; when several
\* rows carry the model, loc yields a Series, float() raises TypeError and
\* the column is skipped, which is what a NaN does as well
ReadPrice(df, model, col) ==
    LET rows == {k \in 1..Len(df.index) : df.index[k] = model}
        c == CHOOSE j \in 1..Len(df.columns) : df.columns[j] = col
    IN  IF Cardinality(rows) = 1
        THEN df.data[CHOOSE k \in rows : TRUE][c]
        ELSE NaN

NoBest == [price |-> -1, plan |-> <<>>, color |-> None, name |-> None]

InitialBestValues == [cat \in SeqToSet(TargetCategories) |-> NoBest]

\* Beats with the first numeric price of a category always taken
BeatsOrFirst(price, current_max) == current_max = -1 \/ price > current_max

\* price > current_max
Beats(price, current_max) == price > current_max

\* the loop over cols_to_scan of one source
RECURSIVE ScanColumns(_, _, _, _)
ScanColumns(best, p, model, cols) ==
    IF cols = <<>> THEN best
    ELSE LET col == Head(cols)
             val == ReadPrice(p.df[1], model, col)
             category == ParseCategory(col)
             next ==
                 IF val # NaN /\ category # NoCategory
                    /\ Beats(val[1], best[category].price)
                 THEN [best EXCEPT ![category] =
                          [price |-> val[1], plan |-> PlanName(col),
                           color |-> Some(p.color_hex), name |-> Some(p.name)]]
                 ELSE best
         IN  ScanColumns(next, p, model, Tail(cols))

\* ColsToScan without the column filter
ColsToScanUnfiltered(p) == p.df[1].columns

ColsToScan(p) ==
    IF p.selected_columns # <<>> THEN p.selected_columns ELSE p.df[1].columns

\* the loop over policies for one model
RECURSIVE ScanPolicies(_, _, _)
ScanPolicies(best, ps, model) ==
    IF ps = <<>> THEN best
    ELSE LET p == Head(ps)
             scanned ==
                 p.df # None
                 /\ model \in SeqToSet(p.df[1].index)
                 /\ ~(p.selected_models # <<>>
                      /\ model \notin SeqToSet(p.selected_models))
             next == IF scanned THEN ScanColumns(best, p, model, ColsToScan(p))
                     ELSE best
         IN  ScanPolicies(next, Tail(ps), model)

BestValues(ps, model) == ScanPolicies(InitialBestValues, ps, model)

\* color.lstrip('#')
RECURSIVE LStrip(_, _)
LStrip(s, ch) ==
    IF s # <<>> /\ Head(s) = ch THEN LStrip(Tail(s), ch) ELSE s

EmptyMarker == [kind |-> "str", text |-> <<>>]
Formula(literal, ref) == [kind |-> "formula", literal |-> literal, ref |-> ref]
Literal(v) == [kind |-> "number", v |-> v]

\* the value written into the price cell of a winning entry
WinningValue(b, adj_map) ==
    IF b.name # None /\ b.name[1] # <<>> /\ b.name[1] \in DOMAIN adj_map
    THEN Formula(b.price, adj_map[b.name[1]])
    ELSE Literal(b.price)

\* WinningFill without the removal of the leading '#'
WinningFillNoLStrip(b) ==
    IF b.color # None /\ b.color[1] # <<>> /\ Len(b.color[1]) = 6
    THEN Some(b.color[1])
    ELSE None

\* the fill of the price cell of a winning entry
WinningFill(b) ==
    IF b.color # None /\ b.color[1] # <<>> /\ Len(LStrip(b.color[1], "#")) = 6
    THEN Some(LStrip(b.color[1], "#"))
    ELSE None

\* MergedCell without the test for the sentinel
MergedCellNoSentinelTest(b, adj_map) ==
    [price |-> WinningValue(b, adj_map), fill |-> WinningFill(b),
     plan |-> b.plan, plan_fill |-> None]

\* the pair (price cell, plan cell) written for one category; only the
\* price cell is ever given a fill
MergedCell(b, adj_map) ==
    IF b.price # -1
    THEN [price |-> WinningValue(b, adj_map), fill |-> WinningFill(b),
          plan |-> b.plan, plan_fill |-> None]
    ELSE [price |-> EmptyMarker, fill |-> None, plan |-> <<>>,
          plan_fill |-> None]

MergedRow(ps, model, adj_map) ==
    LET best == BestValues(ps, model)
    IN  [model |-> model,
         cells |-> [c \in 1..Len(TargetCategories) |->
                       MergedCell(best[TargetCategories[c]], adj_map)]]

\* FooterLines without the test for an empty footer
FooterLinesUnconditional(ps) ==
    [i \in 1..Len(ps) |-> [name |-> ps[i].name, text |-> ps[i].footer_text]]

\* "[name]: [footer_text]" lines under the merged table
RECURSIVE FooterLines(_)
FooterLines(ps) ==
    IF ps = <<>> THEN <<>>
    ELSE (IF Head(ps).footer_text # <<>>
          THEN <<[name |-> Head(ps).name, text |-> Head(ps).footer_text]>>
          ELSE <<>>) \o FooterLines(Tail(ps))

MainSheet(ps) ==
    LET adj_map == AgencyAdjMap(ps)
        combined_index == CombinedIndex(ps)
    IN  [adj_names |-> [i \in 1..Len(ps) |-> ps[i].name],
         adj_vals |-> [i \in 1..Len(ps) |-> 0],
         rows |-> [r \in 1..Len(combined_index) |->
                      MergedRow(ps, combined_index[r], adj_map)],
         notes |-> FooterLines(ps)]

(***************************************************************************)
(* create_battle_excel(policies): the raw sheet of each source.            *)
(***************************************************************************)
RawAdjCell == [col |-> 3, row |-> 1]      \* "$C$1"

\* rows[1] of dataframe_to_rows(df, index=True, header=True): openpyxl
\* yields the column header first and the index names second, so the row
\* the code writes as "header" is the list of index names
RawHeader(df) ==
    IF df.index = <<>> THEN <<None>>
    ELSE <<Some(<<"M", "o", "d", "e", "l">>)>>

\* a price cell of the raw sheet: val is neither None nor "", so float(val)
\* succeeds (also for NaN) and the cell is written as a formula
RawCell(val) == [kind |-> "formula", literal |-> val, ref |-> RawAdjCell]

RawSheet(p) ==
    LET df == p.df[1]
    IN  [title |-> p.name,
         offset |-> 0,
         header |-> RawHeader(df),
         data |-> [r \in 1..Len(df.index) |->
                     [model |-> df.index[r],
                      cells |-> [c \in 1..Len(df.columns) |->
                                    RawCell(df.data[r][c])]]],
         footer |-> p.footer_text]

\* the workbook create_battle_excel saves
Workbook(ps) ==
    [main |-> MainSheet(ps),
     raw |-> [i \in 1..Len(ps) |-> RawSheet(ps[i])]]

(***************************************************************************)
(* The session: registration, analysis, review, generation.                *)
(***************************************************************************)
\* PolicyData.__init__
PolicyData(name, image_bytes, color_hex) ==
    [name |-> name, image_bytes |-> image_bytes, color_hex |-> color_hex,
     df |-> None, footer_text |-> None, is_analyzed |-> FALSE,
     selected_models |-> <<>>, selected_columns |-> <<>>]

\* the sub-lists of s that keep the order of s: what st.multiselect returns
\* when the options are picked in the order of the table
SubLists(s) ==
    LET n == Len(s)
        idx == UNION {[1..k -> 1..n] : k \in 0..n}
    IN  {[i \in DOMAIN f |-> s[f[i]]] :
            f \in {g \in idx : \A a, b \in DOMAIN g : a < b => g[a] < g[b]}}

AnalyzedPolicies == SelectSeq(policies, LAMBDA p : p.is_analyzed)

(***************************************************************************)
(* The inputs of a session.  An image is named by a string; OcrAnswer      *)
(* gives the structured answer the OCR collaborator returns for it (None   *)
(* when the answer holds no JSON object).  A submission is what the user   *)
(* enters in the registration form: a name, a colour and an image.         *)
(***************************************************************************)
ModelA == <<"A">>
ModelB == <<"B">>
ModelLowerA == <<"a">>
ModelPaddedA == <<" ", "A">>
ModelNaN == <<"N", "a", "N">>

\* column descriptors as the OCR collaborator returns them
RawCol(cond, plan) == [sub_agency |-> <<"I">>, condition |-> cond, plan |-> plan]
GongsiMnp == Concat(<<Gongsi, <<" ">>, Mnp>>)
GongsiGibyeon == Concat(<<Gongsi, <<" ">>, Gibyeon>>)
SeonyakMnp == Concat(<<Seonyak, <<" ">>, Mnp>>)
SeonyakGibyeon == Concat(<<Seonyak, <<" ">>, Gibyeon>>)
Plan1 == <<"P", "1">>
Plan2 == <<"P", "2">>
Plan3 == <<"P", "3">>

OcrAnswer(image) ==
    CASE image = "tie_a" ->
            Some([columns |-> <<RawCol(GongsiMnp, Plan1), RawCol(SeonyakGibyeon, Plan2)>>,
                  rows |-> << <<Some(ModelA), Num(70), Num(30)>> >>,
                  footer |-> <<"f", "1">>])
      [] image = "tie_b" ->
            Some([columns |-> <<RawCol(GongsiMnp, Plan3), RawCol(SeonyakGibyeon, TUniverse)>>,
                  rows |-> << <<Some(ModelA), Num(70), Num(40)>> >>,
                  footer |-> <<"f", "2">>])
      [] image = "dup_rows" ->
            Some([columns |-> <<RawCol(GongsiMnp, Plan1)>>,
                  rows |-> << <<Some(ModelA), Num(70)>>,
                              <<Some(ModelA), Num(60)>> >>,
                  footer |-> <<>>])
      [] image = "ids_a" ->
            Some([columns |-> <<RawCol(GongsiMnp, Plan1)>>,
                  rows |-> << <<Some(ModelPaddedA), Num(50)>>,
                              <<Some(ModelLowerA), NaN>> >>,
                  footer |-> <<"f", "1">>])
      [] image = "ids_b" ->
            Some([columns |-> <<RawCol(GongsiMnp, Plan2)>>,
                  rows |-> << <<Some(ModelB), Num(-1)>>,
                              <<Some(ModelLowerA), Num(10)>> >>,
                  footer |-> <<>>])
      [] image = "sentinels" ->
            Some([columns |-> <<RawCol(GongsiMnp, Plan1)>>,
                  rows |-> << <<None, Num(90)>>,
                              <<Some(ModelNaN), Num(30)>> >>,
                  footer |-> <<"f", "3">>])
      [] image = "cols_a" ->
            Some([columns |-> <<RawCol(Mnp, Plan1), RawCol(Gongsi, Plan2)>>,
                  rows |-> << <<Some(ModelA), Num(50), Num(60)>> >>,
                  footer |-> <<"f", "1">>])
      [] image = "cols_b" ->
            Some([columns |-> <<RawCol(GongsiGibyeon, TUniverse),
                                [condition |-> Concat(<<Seonyak, Gongsi, Gibyeon, Mnp>>)]>>,
                  rows |-> << <<Some(ModelA), Num(-5), Num(0)>> >>,
                  footer |-> <<"f", "2">>])
      [] image = "gaps" ->
            Some([columns |-> <<RawCol(GongsiMnp, Plan1), RawCol(GongsiMnp, Plan2)>>,
                  rows |-> << <<Some(ModelA), NaN, Num(10)>>,
                              <<Some(ModelB), Num(20), NaN>> >>,
                  footer |-> <<>>])
      [] image = "no_rows" ->
            Some([columns |-> <<RawCol(GongsiMnp, Plan1)>>,
                  rows |-> << >>,
                  footer |-> <<"f", "3">>])
      [] OTHER -> None

NameP == <<"P">>
NameQ == <<"Q">>
Pink == <<"#", "F", "F", "C", "8", "D", "C">>
Mint == <<"#", "C", "8", "F", "F", "D", "C">>

Submission(name, color, image) == [name |-> name, color |-> color, image |-> image]

\* the sets of submissions a session may draw from
Scenarios ==
    { {Submission(NameP, Pink, "tie_a"), Submission(NameQ, Mint, "tie_b")},
      {Submission(NameQ, Pink, "tie_b"), Submission(NameP, Mint, "dup_rows")},
      {Submission(NameP, Pink, "tie_a"), Submission(NameP, Mint, "tie_b")},
      {Submission(NameQ, Pink, "ids_a"), Submission(NameP, Mint, "ids_b")},
      {Submission(NameP, Pink, "cols_a"), Submission(NameQ, Mint, "cols_b")},
      {Submission(NameP, Pink, "no_rows"), Submission(NameQ, Mint, "no_json"),
       Submission(NameQ, Pink, "sentinels")},
      {Submission(NameQ, Mint, "gaps")} }

\* the values the user types into an offset cell
OffsetValues == {0, 10}

(***************************************************************************)
(* The state machine.                                                      *)
(***************************************************************************)
Init ==
    /\ policies = <<>>
    /\ excel_ready = None
    /\ uploads \in Scenarios

\* "add to the list" button: name and file are both given
AddSource(u) ==
    /\ excel_ready = None
    /\ Len(policies) < MaxPolicies
    /\ u.name # <<>>
    /\ policies' = Append(policies, PolicyData(u.name, u.image, u.color))
    /\ UNCHANGED <<excel_ready, uploads>>

\* delete button of the idx-th card: st.session_state.policies.pop(idx)
DeleteSource(idx) ==
    /\ excel_ready = None
    /\ idx \in 1..Len(policies)
    /\ policies' = [i \in 1..(Len(policies) - 1) |->
                      IF i < idx THEN policies[i] ELSE policies[i + 1]]
    /\ UNCHANGED <<excel_ready, uploads>>

\* the body of the try block for one source whose extraction succeeded
Analyzed(p, data) ==
    LET df == ParseFrame(data)
    IN  [p EXCEPT !.df = Some(df),
                  !.footer_text = data.footer,
                  !.is_analyzed = TRUE,
                  !.selected_models = df.index,
                  !.selected_columns = df.columns]

\* AnalysisStart with a loop that ends at the first extraction that fails
AnalysisStartStoppingAtFailure(failed) ==
    /\ excel_ready = None
    /\ Len(policies) > 0
    /\ failed \subseteq {i \in 1..Len(policies) : ~policies[i].is_analyzed}
    /\ policies' =
          [i \in 1..Len(policies) |->
              IF policies[i].is_analyzed
                 \/ \E k \in 1..i :
                       /\ ~policies[k].is_analyzed
                       /\ (k \in failed \/ OcrAnswer(policies[k].image_bytes) = None)
              THEN policies[i]
              ELSE Analyzed(policies[i], OcrAnswer(policies[i].image_bytes)[1])]
    /\ UNCHANGED <<excel_ready, uploads>>

\* "1. analysis start" button: every source not yet analysed is extracted;
\* the extraction of a source may fail (the set `failed`), and fails when
\* the answer holds no JSON object; a failure leaves the source as it was
AnalysisStart(failed) ==
    /\ excel_ready = None
    /\ Len(policies) > 0
    /\ failed \subseteq {i \in 1..Len(policies) : ~policies[i].is_analyzed}
    /\ policies' =
          [i \in 1..Len(policies) |->
              IF policies[i].is_analyzed \/ i \in failed
                 \/ OcrAnswer(policies[i].image_bytes) = None
              THEN policies[i]
              ELSE Analyzed(policies[i], OcrAnswer(policies[i].image_bytes)[1])]
    /\ UNCHANGED <<excel_ready, uploads>>

\* review step: the two multiselects of the i-th analysed source are set to
\* selected_rows / selected_cols and copied into the source
Review(i, selected_rows, selected_cols) ==
    /\ excel_ready = None
    /\ i \in 1..Len(policies)
    /\ policies[i].is_analyzed
    /\ policies[i].df # None /\ ~FrameEmpty(policies[i].df[1])
    /\ selected_rows \in SubLists(policies[i].df[1].index)
    /\ selected_cols \in SubLists(policies[i].df[1].columns)
    /\ policies' = [policies EXCEPT ![i].selected_models = selected_rows,
                                    ![i].selected_columns = selected_cols]
    /\ UNCHANGED <<excel_ready, uploads>>

\* GenerateExcel with a create_battle_excel that empties the filter lists of
\* the sources it has scanned
GenerateExcelConsumingFilters ==
    /\ AnalyzedPolicies # <<>>
    /\ excel_ready' = Some(Workbook(AnalyzedPolicies))
    /\ policies' = [i \in 1..Len(policies) |->
                      IF policies[i].is_analyzed
                      THEN [policies[i] EXCEPT !.selected_models = <<>>,
                                               !.selected_columns = <<>>]
                      ELSE policies[i]]
    /\ UNCHANGED uploads

\* GenerateExcel with a create_battle_excel that writes the default of an
\* empty filter back into the source
GenerateExcelFillingFilters ==
    /\ AnalyzedPolicies # <<>>
    /\ excel_ready' = Some(Workbook(AnalyzedPolicies))
    /\ policies' = [i \in 1..Len(policies) |->
                      IF policies[i].is_analyzed
                      THEN [policies[i] EXCEPT
                              !.selected_models = ModelsToScan(policies[i]),
                              !.selected_columns = ColsToScan(policies[i])]
                      ELSE policies[i]]
    /\ UNCHANGED uploads

\* GenerateExcel with the filters each source was given by the analysis
\* step (all rows, all columns) instead of the ones in force
GenerateExcelAnalysisTimeFilters ==
    /\ AnalyzedPolicies # <<>>
    /\ excel_ready' =
          Some(Workbook([i \in 1..Len(AnalyzedPolicies) |->
                  [AnalyzedPolicies[i] EXCEPT
                      !.selected_models = AnalyzedPolicies[i].df[1].index,
                      !.selected_columns = AnalyzedPolicies[i].df[1].columns]]))
    /\ UNCHANGED <<policies, uploads>>

\* "2. generate" button: create_battle_excel(analyzed_policies)
GenerateExcel ==
    /\ AnalyzedPolicies # <<>>
    /\ excel_ready' = Some(Workbook(AnalyzedPolicies))
    /\ UNCHANGED <<policies, uploads>>

\* the user edits the offset cell of the k-th source in the merged sheet
\* of the built workbook (one offset cell differs from 0 at a time)
EditOffset(k, v) ==
    /\ excel_ready # None
    /\ \A j \in 1..Len(excel_ready[1].main.adj_vals) :
          j # k => excel_ready[1].main.adj_vals[j] = 0
    /\ k \in 1..Len(excel_ready[1].main.adj_vals)
    /\ v \in OffsetValues
    /\ excel_ready' = Some([excel_ready[1] EXCEPT !.main.adj_vals[k] = v])
    /\ UNCHANGED <<policies, uploads>>

Next ==
    \/ \E u \in uploads : AddSource(u)
    \/ \E idx \in 1..Len(policies) : DeleteSource(idx)
    \/ \E failed \in SUBSET (1..Len(policies)) : AnalysisStart(failed)
    \/ \E i \in {j \in 1..Len(policies) : policies[j].df # None} :
          \E selected_rows \in SubLists(policies[i].df[1].index),
             selected_cols \in SubLists(policies[i].df[1].columns) :
                Review(i, selected_rows, selected_cols)
    \/ GenerateExcel
    \/ \E k \in 1..MaxPolicies, v \in OffsetValues : EditOffset(k, v)

Spec == Init /\ [][Next]_vars

(***************************************************************************)
(* Vocabulary of the properties.  Once a workbook is built the session is  *)
(* frozen, so AnalyzedPolicies is the list create_battle_excel was given.  *)
(* The definitions below read the tables directly (sets, not scans).       *)
(***************************************************************************)
Built == excel_ready # None
Doc == excel_ready[1]
Srcs == AnalyzedPolicies

\* source p includes model m: m is a key of its table and passes its filter
IncludesModel(p, m) ==
    /\ p.df # None
    /\ m \in SeqToSet(p.df[1].index)
    /\ (p.selected_models = <<>> \/ m \in SeqToSet(p.selected_models))

\* the effective columns of source p
EffectiveCols(p) ==
    IF p.selected_columns = <<>> THEN SeqToSet(p.df[1].columns)
    ELSE SeqToSet(p.selected_columns)

\* the numeric entries source p holds for model m in category cat
Entries(p, m, cat) ==
    IF ~IncludesModel(p, m) THEN {}
    ELSE LET df == p.df[1]
         IN  {[price |-> df.data[k][j][1], col |-> df.columns[j]] :
                 <<k, j>> \in {kj \in (1..Len(df.index)) \X (1..Len(df.columns)) :
                     /\ df.index[kj[1]] = m
                     /\ df.columns[kj[2]] \in EffectiveCols(p)
                     /\ ParseCategory(df.columns[kj[2]]) = cat
                     /\ df.data[kj[1]][kj[2]] # NaN}}

\* valid prices: numeric and, by the domain convention, not negative
ValidPricesOf(p, m, cat) == {e.price : e \in {x \in Entries(p, m, cat) : x.price >= 0}}
ValidPrices(m, cat) == UNION {ValidPricesOf(Srcs[i], m, cat) : i \in 1..Len(Srcs)}

MaxOf(S) == CHOOSE x \in S : \A y \in S : y <= x

\* the cells of the merged table: <<row, category position>>
MergedCells == (1..Len(Doc.main.rows)) \X (1..Len(TargetCategories))
CellAt(rc) == Doc.main.rows[rc[1]].cells[rc[2]]
ModelAt(rc) == Doc.main.rows[rc[1]].model
CategoryAt(rc) == TargetCategories[rc[2]]
IsWinning(cell) == cell.price # EmptyMarker
RecordedPrice(cell) ==
    IF cell.price.kind = "formula" THEN cell.price.literal ELSE cell.price.v

\* C1: for every model row and category with at least one valid price held
\* by an including source at an effective column of that category, the
\* recorded price is the maximum of those prices.
C1_RecordedPriceIsMaximum ==
    Built =>
        \A rc \in MergedCells :
            ValidPrices(ModelAt(rc), CategoryAt(rc)) # {} =>
                /\ IsWinning(CellAt(rc))
                /\ RecordedPrice(CellAt(rc))
                      = MaxOf(ValidPrices(ModelAt(rc), CategoryAt(rc)))

\* the sources that hold the maximum valid price of (m, cat)
MaxHolders(m, cat) ==
    {i \in 1..Len(Srcs) :
        MaxOf(ValidPrices(m, cat)) \in ValidPricesOf(Srcs[i], m, cat)}

\* the source name a winning cell is attributed to: the header above the
\* offset cell its formula refers to
AttributedName(cell) == Doc.main.adj_names[cell.price.ref.col - 1]

\* C2: when two or more sources hold the maximum price of a (model,
\* category) pair and the cell records a winner, that winner (name, colour,
\* plan label) is the first of them in the input list.
C2_FirstListedWinsTies ==
    Built =>
        \A rc \in MergedCells :
            (/\ ValidPrices(ModelAt(rc), CategoryAt(rc)) # {}
             /\ Cardinality(MaxHolders(ModelAt(rc), CategoryAt(rc))) >= 2
             /\ IsWinning(CellAt(rc))) =>
                LET holders == MaxHolders(ModelAt(rc), CategoryAt(rc))
                    w == Srcs[CHOOSE i \in holders : \A j \in holders : i <= j]
                    mx == MaxOf(ValidPrices(ModelAt(rc), CategoryAt(rc)))
                    cell == CellAt(rc)
                IN  /\ cell.price.kind = "formula"
                    /\ AttributedName(cell) = w.name
                    /\ cell.fill = Some(LStrip(w.color_hex, "#"))
                    /\ cell.plan \in
                          {PlanName(e.col) :
                              e \in {x \in Entries(w, ModelAt(rc), CategoryAt(rc)) :
                                        x.price = mx}}

\* C3: a (model, category) pair for which no including source holds a valid
\* price is absent: price cell and plan cell are both the empty marker.
C3_AbsentCellIsEmptyMarker ==
    Built =>
        \A rc \in MergedCells :
            ValidPrices(ModelAt(rc), CategoryAt(rc)) = {} =>
                /\ CellAt(rc).price = EmptyMarker
                /\ CellAt(rc).plan = <<>>

\* a built table with an absent cell beside a winning cell of the same row
C3_Witness ==
    /\ Built
    /\ \E rc \in MergedCells :
          /\ ValidPrices(ModelAt(rc), CategoryAt(rc)) = {}
          /\ CellAt(rc).price = EmptyMarker
          /\ \E c \in 1..Len(TargetCategories) :
                IsWinning(Doc.main.rows[rc[1]].cells[c])

\* identifiers that are neither empty nor a sentinel token
ProperId(m) == m # <<>> /\ Lower(m) \notin Sentinels

HasRow(m) == \E r \in 1..Len(Doc.main.rows) : Doc.main.rows[r].model = m

\* source p excludes model m by a non-empty filter
ExcludesModel(p, m) ==
    /\ p.df # None
    /\ m \in SeqToSet(p.df[1].index)
    /\ p.selected_models # <<>>
    /\ m \notin SeqToSet(p.selected_models)

\* the sources a winning cell can stem from: they hold, for the cell's model
\* and category, an entry with the recorded price and plan label, and their
\* colour is the fill of the cell
Provenance(rc) ==
    {i \in 1..Len(Srcs) :
        /\ CellAt(rc).fill = Some(LStrip(Srcs[i].color_hex, "#"))
        /\ \E e \in Entries(Srcs[i], ModelAt(rc), CategoryAt(rc)) :
              /\ e.price = RecordedPrice(CellAt(rc))
              /\ PlanName(e.col) = CellAt(rc).plan}

\* C4: a model excluded by the non-empty filter of source S wins nothing
\* through S, has a row when another source includes it and has no row when
\* no source includes it.
C4_ExcludedModelKeepsRow ==
    Built =>
        \A i \in 1..Len(Srcs) : \A m \in SeqToSet(Srcs[i].df[1].index) :
            (ExcludesModel(Srcs[i], m) /\ ProperId(m)) =>
                /\ \A rc \in MergedCells :
                      (ModelAt(rc) = m /\ IsWinning(CellAt(rc))) =>
                          Provenance(rc) \ {i} # {}
                /\ HasRow(m) <=>
                      \E j \in 1..Len(Srcs) : j # i /\ IncludesModel(Srcs[j], m)

\* the table of source p cut down to its effective rows and columns, with
\* both filters cleared
ColumnPos(df, col) == CHOOSE j \in 1..Len(df.columns) : df.columns[j] = col

Restricted(p) ==
    LET df == p.df[1]
        keep == SelectSeq([k \in 1..Len(df.index) |-> k],
                          LAMBDA k : \/ p.selected_models = <<>>
                                     \/ df.index[k] \in SeqToSet(p.selected_models))
        cols == IF p.selected_columns = <<>> THEN df.columns ELSE p.selected_columns
    IN  [p EXCEPT !.df = Some([index |-> [k \in 1..Len(keep) |-> df.index[keep[k]]],
                               columns |-> cols,
                               data |-> [k \in 1..Len(keep) |->
                                           [j \in 1..Len(cols) |->
                                               df.data[keep[k]][ColumnPos(df, cols[j])]]]]),
                  !.selected_models = <<>>,
                  !.selected_columns = <<>>]

\* C5: an empty filter lets a source contribute all its rows (columns), a
\* non-empty filter exactly the listed ones: the merged table is the table
\* built from the sources cut down to their effective rows and columns.
C5_FiltersSelectContribution ==
    Built =>
        Doc.main.rows
            = MainSheet([i \in 1..Len(Srcs) |-> Restricted(Srcs[i])]).rows

\* a built table with a source whose row filter is empty and a source whose
\* column filter drops a column that holds a price
C5_Witness ==
    /\ Built
    /\ \E i \in 1..Len(Srcs) :
          /\ Srcs[i].selected_models = <<>>
          /\ Srcs[i].df[1].index # <<>>
          /\ HasRow(Srcs[i].df[1].index[1])
    /\ \E i \in 1..Len(Srcs) :
          /\ Srcs[i].selected_columns # <<>>
          /\ \E j \in 1..Len(Srcs[i].df[1].columns) :
                /\ Srcs[i].df[1].columns[j] \notin SeqToSet(Srcs[i].selected_columns)
                /\ \E k \in 1..Len(Srcs[i].df[1].index) :
                      Srcs[i].df[1].data[k][j] # NaN
    /\ \E rc \in MergedCells : IsWinning(CellAt(rc))

\* the effective model identifiers of source p
EffectiveIds(p) ==
    IF p.df = None THEN {}
    ELSE IF p.selected_models = <<>> THEN SeqToSet(p.df[1].index)
    ELSE SeqToSet(p.selected_models) \cap SeqToSet(p.df[1].index)

\* C6: the rows are the union of the effective model identifiers of all
\* sources, empty and sentinel identifiers left out, without duplicates, in
\* ascending case-sensitive order.
C6_RowsAreSortedUnion ==
    Built =>
        [r \in 1..Len(Doc.main.rows) |-> Doc.main.rows[r].model]
            = SortedStr({m \in UNION {EffectiveIds(Srcs[i]) : i \in 1..Len(Srcs)} :
                            ProperId(m)})

HasAcquisition(col) == Contains(col, Mnp) \/ Contains(col, Gibyeon)
HasContract(col) == Contains(col, Gongsi) \/ Contains(col, Seonyak)

\* C7: a column with an acquisition keyword and no contract keyword counts
\* as PUBLIC_SUBSIDY: each valid price it holds competes in the public
\* subsidy category of its acquisition type, so the recorded price of that
\* cell is at least that price.
C7_ContractDefaultsToPublicSubsidy ==
    Built =>
        \A i \in 1..Len(Srcs) :
            \A col \in EffectiveCols(Srcs[i]) :
                (HasAcquisition(col) /\ ~HasContract(col)) =>
                    \A k \in 1..Len(Srcs[i].df[1].index) :
                        LET df == Srcs[i].df[1]
                            val == df.data[k][ColumnPos(df, col)]
                            cat == IF Contains(col, Mnp) THEN "gongsi(MNP)"
                                   ELSE "gongsi(gibyeon)"
                        IN  (/\ IncludesModel(Srcs[i], df.index[k])
                             /\ HasRow(df.index[k])
                             /\ val # NaN /\ val[1] >= 0) =>
                                \E rc \in MergedCells :
                                    /\ ModelAt(rc) = df.index[k]
                                    /\ CategoryAt(rc) = cat
                                    /\ IsWinning(CellAt(rc))
                                    /\ RecordedPrice(CellAt(rc)) >= val[1]

\* the table of source p with the prices of every column that has no
\* acquisition keyword blanked out
Blanked(p) ==
    [p EXCEPT !.df = Some([p.df[1] EXCEPT !.data =
        [k \in 1..Len(p.df[1].index) |->
            [j \in 1..Len(p.df[1].columns) |->
                IF HasAcquisition(p.df[1].columns[j]) THEN p.df[1].data[k][j]
                ELSE NaN]]])]

C9_WinningCellIsFormulaOnWinnersOffset ==
    Built =>
        \A rc \in MergedCells :
            IsWinning(CellAt(rc)) =>
                /\ CellAt(rc).price.kind = "formula"
                /\ \E i \in Provenance(rc) : CellAt(rc).price.ref = AdjCell(i)

\* what the spreadsheet shows for a formula cell of the merged sheet
EffectivePrice(main, cell) ==
    cell.price.literal + main.adj_vals[cell.price.ref.col - 1]

\* the source that won a cell: the first of the list the cell can stem from
WinnerOf(rc) == CHOOSE i \in Provenance(rc) : \A j \in Provenance(rc) : i <= j

\* C10: the effective price of a winning cell is its literal plus the value
\* of its winner's offset cell; changing the offset cell of source k by d
\* changes the effective price of the cells won by k by d, no other
\* effective price, and no literal.
C10_OffsetPropagation ==
    [][(Built /\ Built' /\ Doc'.main.rows = Doc.main.rows) =>
          \A rc \in MergedCells :
              IsWinning(CellAt(rc)) =>
                  /\ EffectivePrice(Doc'.main, CellAt(rc))
                        = CellAt(rc).price.literal + Doc'.main.adj_vals[WinnerOf(rc)]
                  /\ \A k \in 1..Len(Doc.main.adj_vals) :
                        (\A j \in 1..Len(Doc.main.adj_vals) :
                            j # k => Doc'.main.adj_vals[j] = Doc.main.adj_vals[j]) =>
                            EffectivePrice(Doc'.main, CellAt(rc))
                                - EffectivePrice(Doc.main, CellAt(rc))
                              = IF WinnerOf(rc) = k
                                THEN Doc'.main.adj_vals[k] - Doc.main.adj_vals[k]
                                ELSE 0]_vars

\* C11: every winning price cell carries the colour of a source that holds
\* the recorded price and plan label for the cell's model and category (the
\* source that won it); absent price cells and all plan cells carry none.
C11_WinningCellCarriesWinnersColour ==
    Built =>
        \A rc \in MergedCells :
            /\ IsWinning(CellAt(rc)) =>
                  /\ CellAt(rc).fill # None
                  /\ Provenance(rc) # {}
            /\ ~IsWinning(CellAt(rc)) => CellAt(rc).fill = None
            /\ CellAt(rc).plan_fill = None

\* a built table with cells won by sources of different colours and an
\* absent cell
C11_Witness ==
    /\ Built
    /\ \E rc1, rc2 \in MergedCells :
          /\ IsWinning(CellAt(rc1)) /\ IsWinning(CellAt(rc2))
          /\ CellAt(rc1).fill # CellAt(rc2).fill
    /\ \E rc \in MergedCells : ~IsWinning(CellAt(rc))

\* the sources that have notes, in the order of the input list
WithNotes == SelectSeq(Srcs, LAMBDA p : p.footer_text # <<>>)

NoteOf(p) == [name |-> p.name, text |-> p.footer_text]

\* C12 (as stated): the notes section has one entry per source that has
\* notes, in ascending order of source name.
C12_NotesSortedByName ==
    Built =>
        /\ Len(Doc.main.notes) = Len(WithNotes)
        /\ \A i \in 1..Len(WithNotes) :
              \E j \in 1..Len(Doc.main.notes) : Doc.main.notes[j] = NoteOf(WithNotes[i])
        /\ \A i, j \in 1..Len(Doc.main.notes) :
              i < j => ~StrLess(Doc.main.notes[j].name, Doc.main.notes[i].name)

\* C12 (amended): the notes section has one entry per source that has
\* notes, in the order of the sources in the input list.
C12_NotesInListOrder ==
    Built =>
        /\ Len(Doc.main.notes) = Len(WithNotes)
        /\ \A i \in 1..Len(WithNotes) : Doc.main.notes[i] = NoteOf(WithNotes[i])

\* a built workbook whose notes section has two entries, the first of a
\* source whose name sorts after the name of the second
C12_Witness ==
    /\ Built
    /\ Len(Doc.main.notes) = 2
    /\ StrLess(Doc.main.notes[2].name, Doc.main.notes[1].name)

C14_GenerationLeavesSourcesUnchanged ==
    [][(excel_ready' # excel_ready) => policies' = policies]_vars

\* a workbook built from a list with a source whose row filter is empty, a
\* source whose row filter is a proper part of its rows, and notes
C14_Witness ==
    /\ Built
    /\ \E i \in 1..Len(Srcs) :
          Srcs[i].selected_models = <<>> /\ Srcs[i].df[1].index # <<>>
    /\ \E i \in 1..Len(Srcs) :
          /\ Srcs[i].selected_models # <<>>
          /\ SeqToSet(Srcs[i].selected_models) # SeqToSet(Srcs[i].df[1].index)
    /\ Doc.main.notes # <<>>

\* C15: the workbook has one raw sheet per source, holding all rows of the
\* source whatever its filters; every numeric price cell is a formula adding
\* the literal to the sheet's offset cell, which starts at 0, and a cell
\* without a numeric value is not a formula.
C15_RawSheetFormulas ==
    Built =>
        /\ Len(Doc.raw) = Len(Srcs)
        /\ \A i \in 1..Len(Srcs) :
              LET df == Srcs[i].df[1]
                  sheet == Doc.raw[i]
              IN  /\ sheet.offset = 0
                  /\ [k \in 1..Len(sheet.data) |-> sheet.data[k].model] = df.index
                  /\ \A k \in 1..Len(df.index), j \in 1..Len(df.columns) :
                        IF df.data[k][j] # NaN
                        THEN sheet.data[k].cells[j]
                                = Formula(df.data[k][j], RawAdjCell)
                        ELSE sheet.data[k].cells[j].kind # "formula"

\* source p with the filters the analysis step gave it
AtAnalysis(p) ==
    [p EXCEPT !.selected_models = p.df[1].index,
              !.selected_columns = p.df[1].columns]

\* C16: the workbook reflects the filters in force when generation was
\* requested, whatever was set at analysis or by earlier edits: its merged
\* table is the table of the sources as filtered at that moment, every row
\* is (the stripped form of) an identifier inside a filter in force, and
\* every winning cell stems from an entry inside the filters in force.
C16_FiltersReadAtGeneration ==
    Built =>
        /\ Doc.main.rows = MainSheet(Srcs).rows
        /\ \A r \in 1..Len(Doc.main.rows) :
              \E i \in 1..Len(Srcs) :
                  \E m \in EffectiveIds(Srcs[i]) : Strip(m) = Doc.main.rows[r].model
        /\ \A rc \in MergedCells : IsWinning(CellAt(rc)) => Provenance(rc) # {}

\* a workbook built after review edits that matter: with the filters of the
\* analysis step the merged table would be another one
C16_Witness ==
    /\ Built
    /\ Doc.main.rows # MainSheet([i \in 1..Len(Srcs) |-> AtAnalysis(Srcs[i])]).rows
    /\ \E rc \in MergedCells : IsWinning(CellAt(rc))

\* every numeric price the sources hold, inside their filters, for model m
\* in category cat
NumericPrices(m, cat) ==
    UNION {{e.price : e \in Entries(Srcs[i], m, cat)} : i \in 1..Len(Srcs)}

\* C17: -1 is the no-winner sentinel: the recorded price of a winning cell
\* is never -1 or lower, and a (model, category) pair whose numeric prices
\* are all -1 or lower is absent.
C17_MinusOneIsSentinel ==
    Built =>
        \A rc \in MergedCells :
            /\ IsWinning(CellAt(rc)) => RecordedPrice(CellAt(rc)) > -1
            /\ (/\ NumericPrices(ModelAt(rc), CategoryAt(rc)) # {}
                /\ \A x \in NumericPrices(ModelAt(rc), CategoryAt(rc)) : x <= -1) =>
                    /\ CellAt(rc).price = EmptyMarker
                    /\ CellAt(rc).plan = <<>>

\* a built table with a pair whose only numeric price is -1, beside a
\* winning cell of another row
C17_Witness ==
    /\ Built
    /\ \E rc \in MergedCells : NumericPrices(ModelAt(rc), CategoryAt(rc)) = {-1}
    /\ \E rc \in MergedCells : IsWinning(CellAt(rc))

\* the plan label of a column key "sub|cond(plan)": what stands between the
\* first "(" and the closing ")"
FullPlanLabel(col) ==
    LET at == {i \in 1..Len(col) : col[i] = "("}
        first == CHOOSE i \in at : \A j \in at : i <= j
    IN  SubSeq(col, first + 1, Len(col) - 1)

\* C18: the plan label of a winning cell is the full plan label of a column
\* in which a source holds the recorded price for the cell's model and
\* category, also when that label itself contains parentheses.
C18_PlanLabelIsFullLabel ==
    Built =>
        \A rc \in MergedCells :
            IsWinning(CellAt(rc)) =>
                \E i \in 1..Len(Srcs) :
                    \E e \in Entries(Srcs[i], ModelAt(rc), CategoryAt(rc)) :
                        /\ e.price = RecordedPrice(CellAt(rc))
                        /\ CellAt(rc).plan = FullPlanLabel(e.col)

\* the prices above the sentinel that source p holds for m in category cat
\* as single numbers: a missing value is no entry, and the value read for a
\* model that several rows carry is not a number
ReadablePricesOf(p, m, cat) ==
    IF p.df # None
       /\ Cardinality({k \in 1..Len(p.df[1].index) : p.df[1].index[k] = m}) = 1
    THEN {e.price : e \in {x \in Entries(p, m, cat) : x.price > -1}}
    ELSE {}

ReadablePrices(m, cat) ==
    UNION {ReadablePricesOf(Srcs[i], m, cat) : i \in 1..Len(Srcs)}

\* source p has, for model m, a missing value in an effective column of
\* category cat
HasMissingValue(p, m, cat) ==
    /\ IncludesModel(p, m)
    /\ \E k \in 1..Len(p.df[1].index), j \in 1..Len(p.df[1].columns) :
          /\ p.df[1].index[k] = m
          /\ p.df[1].columns[j] \in EffectiveCols(p)
          /\ ParseCategory(p.df[1].columns[j]) = cat
          /\ p.df[1].data[k][j] = NaN

\* C19: a missing or non-numeric value is skipped: it is never a winner,
\* never changes the best of a category and never stops the scan, so every
\* cell records the maximum of the numbers the sources hold for it, and is
\* absent when there is none.
C19_MissingValuesAreSkipped ==
    Built =>
        \A rc \in MergedCells :
            LET R == ReadablePrices(ModelAt(rc), CategoryAt(rc))
            IN  IF R = {}
                THEN CellAt(rc).price = EmptyMarker
                ELSE /\ IsWinning(CellAt(rc))
                     /\ RecordedPrice(CellAt(rc)) = MaxOf(R)

\* a built table with a winning cell for which an earlier source of the
\* list has a missing value
C19_Witness ==
    /\ Built
    /\ \E rc \in MergedCells :
          /\ IsWinning(CellAt(rc))
          /\ \E i \in 1..Len(Srcs) :
                /\ HasMissingValue(Srcs[i], ModelAt(rc), CategoryAt(rc))
                /\ \E j \in Provenance(rc) : i < j

\* C20: the sources passed to create_battle_excel have pairwise distinct
\* names, each has its own offset cell in the merged sheet (initially 0),
\* and winning cells that refer to the same offset cell were won by the
\* same source.
C20_NamesDistinctOwnOffsetCell ==
    Built =>
        /\ \A i, j \in 1..Len(Srcs) : i # j => Srcs[i].name # Srcs[j].name
        /\ Doc.main.adj_names = [i \in 1..Len(Srcs) |-> Srcs[i].name]
        /\ Len(Doc.main.adj_vals) = Len(Srcs)
        /\ Workbook(Srcs).main.adj_vals = [i \in 1..Len(Srcs) |-> 0]
        /\ \A rc1, rc2 \in MergedCells :
              (/\ IsWinning(CellAt(rc1)) /\ IsWinning(CellAt(rc2))
               /\ CellAt(rc1).price.kind = "formula"
               /\ CellAt(rc2).price.kind = "formula"
               /\ CellAt(rc1).price.ref = CellAt(rc2).price.ref) =>
                  Provenance(rc1) \cap Provenance(rc2) # {}

\* the categories a column key may count for by keyword priority: public
\* subsidy before select commitment, port-in before device change
PriorityCategories(col) ==
    LET contract == IF Contains(col, Gongsi) THEN {"gongsi"}
                    ELSE IF Contains(col, Seonyak) THEN {"seonyak"} ELSE {}
        acquisition == IF Contains(col, Mnp) THEN {"MNP"}
                       ELSE IF Contains(col, Gibyeon) THEN {"gibyeon"} ELSE {}
    IN  {cat \in SeqToSet(TargetCategories) :
            \E c \in contract, a \in acquisition :
                cat = (CASE c = "gongsi" /\ a = "MNP" -> "gongsi(MNP)"
                         [] c = "seonyak" /\ a = "MNP" -> "seonyak(MNP)"
                         [] c = "gongsi" /\ a = "gibyeon" -> "gongsi(gibyeon)"
                         [] OTHER -> "seonyak(gibyeon)")}

\* the prices above the sentinel that source p holds as single numbers for
\* model m in effective columns that count for category cat by priority
PriorityPricesOf(p, m, cat) ==
    IF IncludesModel(p, m)
       /\ Cardinality({k \in 1..Len(p.df[1].index) : p.df[1].index[k] = m}) = 1
    THEN LET df == p.df[1]
             k == CHOOSE r \in 1..Len(df.index) : df.index[r] = m
         IN  {df.data[k][j][1] :
                 j \in {c \in 1..Len(df.columns) :
                          /\ df.columns[c] \in EffectiveCols(p)
                          /\ cat \in PriorityCategories(df.columns[c])
                          /\ df.data[k][c] # NaN
                          /\ df.data[k][c][1] > -1}}
    ELSE {}

PriorityPrices(m, cat) ==
    UNION {PriorityPricesOf(Srcs[i], m, cat) : i \in 1..Len(Srcs)}

\* C21: a column counts for at most one category, fixed by keyword priority
\* over the whole key (public subsidy before select commitment, port-in
\* before device change): every cell records the maximum of the prices of
\* the columns that count for its category, and nothing else.
C21_KeywordPriority ==
    /\ \A i \in 1..Len(policies) :
          policies[i].df # None =>
              \A c \in SeqToSet(policies[i].df[1].columns) :
                  Cardinality(PriorityCategories(c)) <= 1
    /\ Built =>
          \A rc \in MergedCells :
              LET R == PriorityPrices(ModelAt(rc), CategoryAt(rc))
              IN  IF R = {}
                  THEN CellAt(rc).price = EmptyMarker
                  ELSE /\ IsWinning(CellAt(rc))
                       /\ RecordedPrice(CellAt(rc)) = MaxOf(R)

\* a built table with a cell won through a column whose key holds both
\* contract keywords and both acquisition keywords
C21_Witness ==
    /\ Built
    /\ \E rc \in MergedCells :
          /\ IsWinning(CellAt(rc))
          /\ \E i \in Provenance(rc) :
                \E e \in Entries(Srcs[i], ModelAt(rc), CategoryAt(rc)) :
                    /\ e.price = RecordedPrice(CellAt(rc))
                    /\ Contains(e.col, Gongsi) /\ Contains(e.col, Seonyak)
                    /\ Contains(e.col, Mnp) /\ Contains(e.col, Gibyeon)

\* C22: in every winning cell the recorded price, the plan label, the colour
\* and the referenced offset cell come from one and the same entry: a column
\* of one source holds the price and gives the plan label, and that source
\* gives the colour, the vendor name and the offset cell.
C22_WinningCellFromOneEntry ==
    Built =>
        \A rc \in MergedCells :
            IsWinning(CellAt(rc)) =>
                \E i \in 1..Len(Srcs) :
                    \E e \in Entries(Srcs[i], ModelAt(rc), CategoryAt(rc)) :
                        /\ e.price = RecordedPrice(CellAt(rc))
                        /\ PlanName(e.col) = CellAt(rc).plan
                        /\ CellAt(rc).fill = Some(LStrip(Srcs[i].color_hex, "#"))
                        /\ CellAt(rc).price.kind = "formula"
                        /\ CellAt(rc).price.ref = AdjCell(i)
                        /\ AttributedName(CellAt(rc)) = Srcs[i].name

\* C23: every model identifier with a row in the merged table is an exact
\* key of the table of a source that includes it; no row is entirely absent
\* while a source holds valid prices under a key that differs from the row
\* identifier only by surrounding whitespace.
C23_RowIdentifiersAreExactKeys ==
    Built =>
        \A r \in 1..Len(Doc.main.rows) :
            LET id == Doc.main.rows[r].model
            IN  /\ \E i \in 1..Len(Srcs) : IncludesModel(Srcs[i], id)
                /\ ~ /\ \A c \in 1..Len(TargetCategories) :
                            ~IsWinning(Doc.main.rows[r].cells[c])
                      /\ \E i \in 1..Len(Srcs) :
                            \E m \in SeqToSet(Srcs[i].df[1].index) :
                                /\ m # id
                                /\ Strip(m) = id
                                /\ IncludesModel(Srcs[i], m)
                                /\ \E cat \in SeqToSet(TargetCategories) :
                                      ValidPricesOf(Srcs[i], m, cat) # {}

\* the sources of the list that are not analysed yet
Pending == {i \in 1..Len(policies) : ~policies[i].is_analyzed}

Extractable(p) == OcrAnswer(p.image_bytes) # None

\* an analysed source holds the table and the notes of its extraction and
\* filters over that table; a source not analysed holds none of them
WorkflowState ==
    \A i \in 1..Len(policies) :
        LET p == policies[i]
        IN  IF p.is_analyzed
            THEN /\ Extractable(p)
                 /\ p.df = Some(ParseFrame(OcrAnswer(p.image_bytes)[1]))
                 /\ p.footer_text = OcrAnswer(p.image_bytes)[1].footer
                 /\ SeqToSet(p.selected_models) \subseteq SeqToSet(p.df[1].index)
                 /\ SeqToSet(p.selected_columns) \subseteq SeqToSet(p.df[1].columns)
            ELSE /\ p.df = None
                 /\ p.footer_text = None
                 /\ p.selected_models = <<>>
                 /\ p.selected_columns = <<>>

\* when several sources are pending, one whose image can be extracted is
\* analysed by a press of the analysis button in which the extraction of
\* every other pending source fails, wherever it stands in the list
FailureDoesNotStopOthers ==
    \A i, j \in Pending :
        (i # j /\ excel_ready = None /\ Extractable(policies[j])) =>
            ENABLED (/\ AnalysisStart(Pending \ {j})
                     /\ policies'[j].is_analyzed
                     /\ \A k \in Pending \ {j} : ~policies'[k].is_analyzed)

\* a step that analyses a source gives it both filters in full and leaves
\* every source analysed before as it was, filters included
AnalysisStep ==
    (/\ Len(policies') = Len(policies)
     /\ \E j \in Pending : policies'[j].is_analyzed) =>
        \A i \in 1..Len(policies) :
            /\ policies[i].is_analyzed => policies'[i] = policies[i]
            /\ (i \in Pending /\ policies'[i].is_analyzed) =>
                  /\ policies'[i].selected_models = policies'[i].df[1].index
                  /\ policies'[i].selected_columns = policies'[i].df[1].columns
            /\ (i \in Pending /\ ~policies'[i].is_analyzed) =>
                  policies'[i] = policies[i]

\* the workbook is built from the analysed sources of the list, and only
\* from them
GenerateStep ==
    (excel_ready = None /\ excel_ready' # None) =>
        LET called == {i \in 1..Len(policies) : policies[i].is_analyzed}
        IN  /\ called # {}
            /\ \A i \in called : policies[i].df # None
            /\ Len(excel_ready'[1].main.adj_names) = Cardinality(called)
            /\ Len(excel_ready'[1].raw) = Cardinality(called)
            /\ \A k \in 1..Len(excel_ready'[1].main.adj_names) :
                  \E i \in called :
                      excel_ready'[1].main.adj_names[k] = policies[i].name

\* C24: a source is analysed only with the table and notes of a successful
\* extraction stored; a failed extraction leaves the source unanalysed
\* without a table and does not stop the analysis of the other sources; an
\* analysed source is never extracted again; the workbook is only built from
\* analysed sources that have a table and both filters.
C24_AnalyseReviewGenerate ==
    /\ [](WorkflowState /\ FailureDoesNotStopOthers)
    /\ [][AnalysisStep /\ GenerateStep]_vars

\* a workbook built from a list in which the extraction of a source failed
\* and a source registered after it is analysed
C24_Witness ==
    /\ Built
    /\ \E i, j \in 1..Len(policies) :
          /\ i < j
          /\ ~policies[i].is_analyzed /\ ~Extractable(policies[i])
          /\ policies[i].df = None
          /\ policies[j].is_analyzed /\ policies[j].df # None

====
